---- MODULE Spec2Model ----
(***************************************************************************)
(* Model of server/app.py: the version cache of the update service, its    *)
(* refresh from the upstream manifest, and the /version and /check         *)
(* handlers.                                                               *)
(*                                                                         *)
(* Strings are sequences of one-character strings, so that strip, split    *)
(* and isdigit are computed on the characters as Python computes them.     *)
(* Optional values (None in the code) are sequences of length 0 or 1.      *)
(* Time is counted in ticks, TicksPerSecond to the second, so that         *)
(* int(now) truncates.                                                     *)
(*                                                                         *)
(* The handlers run on threads and take no lock: each action is one line   *)
(* of a handler that reads the clock, reads or writes one entry of _cache, *)
(* or waits for requests.get. A request comes in at any time, also while   *)
(* another is being served. Spec, ClockSpec, RetrySpec, StaleSpec and     *)
(* ThreadSpec are the same program on five windows of inputs.              *)
(***************************************************************************)
EXTENDS Integers, Sequences, FiniteSets, TLC

(***************************************************************************)
(* Bounds of the model                                                     *)
(***************************************************************************)
TicksPerSecond == 2

MaxSeconds == 62

MaxRev == 2

MaxRequests == 2

ThreadMaxSeconds == 25

RetryMaxSeconds == 103

RetryMaxRequests == 3

\* the longest string given to parse_version on its own
MaxLen == 7

\* the request threads of the server
Threads == {1, 2}

(***************************************************************************)
(* Program constants                                                       *)
(***************************************************************************)
CACHE_TTL_SECONDS == 60

ERROR_TTL_SECONDS == 30

(***************************************************************************)
(* Optional values                                                         *)
(***************************************************************************)
None == << >>

Some(x) == << x >>

(***************************************************************************)
(* Characters and strings                                                  *)
(***************************************************************************)
Digits == {"0", "1", "2", "3", "4", "5", "6", "7", "8", "9"}

DigitVal(c) ==
  CASE c = "0" -> 0 [] c = "1" -> 1 [] c = "2" -> 2 [] c = "3" -> 3
    [] c = "4" -> 4 [] c = "5" -> 5 [] c = "6" -> 6 [] c = "7" -> 7
    [] c = "8" -> 8 [] c = "9" -> 9

\* digits that are not decimal: str.isdigit() is true of them and int() raises
\* ValueError on them
Superscripts == {"²"}

\* str.isdigit(): non-empty and every character a digit
isdigit(s) == Len(s) > 0 /\ \A i \in 1..Len(s) : s[i] \in Digits \cup Superscripts

\* int(s) returns, for s with s.isdigit(): every character is a decimal digit
int_returns(s) == \A i \in 1..Len(s) : s[i] \in Digits

\* the message of the ValueError that int(s) raises otherwise
IntError == "invalid literal for int() with base 10"

\* int(s) of a string of decimal digits
RECURSIVE int(_)
int(s) ==
  IF Len(s) = 0 THEN 0
  ELSE 10 * int(SubSeq(s, 1, Len(s) - 1)) + DigitVal(s[Len(s)])

\* str.lstrip() and str.rstrip(): drop leading, trailing whitespace
RECURSIVE lstrip(_)
lstrip(s) == IF Len(s) = 0 \/ s[1] # " " THEN s ELSE lstrip(Tail(s))

RECURSIVE rstrip(_)
rstrip(s) == IF Len(s) = 0 \/ s[Len(s)] # " " THEN s ELSE rstrip(SubSeq(s, 1, Len(s) - 1))

\* str.strip()
strip(s) == rstrip(lstrip(s))

\* "c in s"
Contains(s, c) == \E i \in 1..Len(s) : s[i] = c

\* index of the first c in s (s contains c)
RECURSIVE FirstIndex(_, _)
FirstIndex(s, c) == IF s[1] = c THEN 1 ELSE 1 + FirstIndex(Tail(s), c)

\* s.split(c, 1) of a string that contains c: the parts before and after the first c
SplitFirst(s, c) ==
  LET i == FirstIndex(s, c)
  IN  << SubSeq(s, 1, i - 1), SubSeq(s, i + 1, Len(s)) >>

\* s.split(c): all the parts between occurrences of c
RECURSIVE split(_, _)
split(s, c) ==
  IF ~Contains(s, c) THEN << s >>
  ELSE LET p == SplitFirst(s, c) IN << p[1] >> \o split(p[2], c)

(***************************************************************************)
(* Truthiness of the values the code tests with "if x" / "not x"           *)
(***************************************************************************)
\* an optional string is truthy when it is not None and not ""
Truthy(opt) == opt # None /\ opt[1] # << >>

(***************************************************************************)
(* Sample strings: version values of manifests and of the current param    *)
(***************************************************************************)
S_1_2_3p5 == <<"1", ".", "2", ".", "3", "+", "5">>

S_1_2_3p10 == <<"1", ".", "2", ".", "3", "+", "1", "0">>

S_1_2_3 == <<"1", ".", "2", ".", "3">>

S_2_0_0 == <<"2", ".", "0", ".", "0">>

S_1_9_9p999 == <<"1", ".", "9", ".", "9", "+", "9", "9", "9">>

S_1_2 == <<"1", ".", "2">>

S_a_b_c == <<"a", ".", "b", ".", "c">>

S_p5 == <<"+", "5">>

S_blank == <<" ">>

S_sp_1_2_3 == <<" ", "1", ".", "2", ".", "3", " ">>

(***************************************************************************)
(* _parse_pubspec                                                          *)
(***************************************************************************)
\* A manifest is given by what yaml.safe_load makes of it: a document that
\* does not load as a mapping ("invalid"), a mapping without a version key
\* ("no_version"), or a mapping whose version value prints as `value`.
Manifest(kind, value) == [kind |-> kind, value |-> value]

ParseFailed(err) == [ok |-> FALSE, v |-> << >>, build |-> None, raw |-> << >>, err |-> err]

_parse_pubspec(m) ==
  IF m.kind = "invalid" THEN ParseFailed("yaml: could not load pubspec")
  ELSE LET raw == IF m.kind = "no_version" THEN << >> ELSE strip(m.value)
       IN  IF raw = << >> THEN ParseFailed("No 'version' field found in pubspec.yaml")
           ELSE IF Contains(raw, "+")
                THEN LET p == SplitFirst(raw, "+")
                         v == strip(p[1])
                         b == strip(p[2])
                     IN  IF isdigit(b) /\ ~int_returns(b) THEN ParseFailed(IntError)
                         ELSE [ok |-> TRUE, v |-> v,
                               build |-> IF isdigit(b) THEN Some(int(b)) ELSE None,
                               raw |-> raw, err |-> ""]
                ELSE [ok |-> TRUE, v |-> raw, build |-> None, raw |-> raw, err |-> ""]

(***************************************************************************)
(* parse_version and the comparison of /check                              *)
(***************************************************************************)
parse_version(s) ==
  LET v == strip(s)
      hasPlus == Contains(v, "+")
      version_part == IF hasPlus THEN SplitFirst(v, "+")[1] ELSE v
      build_part == IF hasPlus THEN strip(SplitFirst(v, "+")[2]) ELSE << >>
      numeric == hasPlus /\ isdigit(build_part)
      build == IF numeric /\ int_returns(build_part) THEN int(build_part) ELSE 0
      raw_parts == split(version_part, ".")
      parts == [i \in 1..Len(raw_parts) |-> strip(raw_parts[i])]
  IN  IF numeric /\ ~int_returns(build_part)
      THEN [ok |-> FALSE, t |-> <<0, 0, 0, 0>>, err |-> IntError]
      ELSE IF Len(parts) # 3 \/ ~(\A i \in 1..Len(parts) : isdigit(parts[i]))
      THEN [ok |-> FALSE, t |-> <<0, 0, 0, 0>>, err |-> "Invalid version format"]
      ELSE IF ~(\A i \in 1..Len(parts) : int_returns(parts[i]))
      THEN [ok |-> FALSE, t |-> <<0, 0, 0, 0>>, err |-> IntError]
      ELSE [ok |-> TRUE, t |-> <<int(parts[1]), int(parts[2]), int(parts[3]), build>>,
            err |-> ""]

\* Python's a > b on two tuples of integers of the same length
TupleGreater(a, b) ==
  \E i \in 1..Len(a) : a[i] > b[i] /\ \A j \in 1..(i - 1) : a[j] = b[j]

\* lines 206-211 with line 211 leaving the builds out
update_available_ignoring_build(lat, cur) ==
  IF TupleGreater(SubSeq(lat, 1, 3), SubSeq(cur, 1, 3)) THEN TRUE
  ELSE IF TupleGreater(SubSeq(cur, 1, 3), SubSeq(lat, 1, 3)) THEN FALSE
  ELSE FALSE

\* lines 206-211: lat and cur are the 4-tuples of parse_version
update_available(lat, cur) ==
  IF TupleGreater(SubSeq(lat, 1, 3), SubSeq(cur, 1, 3)) THEN TRUE
  ELSE IF TupleGreater(SubSeq(cur, 1, 3), SubSeq(lat, 1, 3)) THEN FALSE
  ELSE lat[4] > cur[4]

(***************************************************************************)
(* State                                                                   *)
(***************************************************************************)
VARIABLES
  cache,      \* the module-level _cache dictionary
  clock,      \* time.time(), in ticks
  config,     \* whether GITHUB_OWNER, GITHUB_REPO and GITHUB_PUBSPEC_PATH are set
  upstream,   \* the manifest the repository holds now, and its revision (ETag)
  call,       \* history: the _refresh_cache call that ended last, and whether
              \* any two calls have overlapped
  populated,  \* history: a refresh has stored the version of new content
  served,     \* history: the number of requests received
  pc,         \* where each request thread stands in its handler
  req,        \* the request each thread serves
  loc,        \* the local variables of each thread's _refresh_cache call
  out,        \* the response each thread is building
  settled,    \* history: the values _cache held when a refresh ended
  arg,        \* parse_version on its own: the string it is given
  ret         \* parse_version on its own: what it returned or raised

shared == <<cache, clock, config, upstream, populated, served>>

threads == <<pc, req, loc, out, settled>>

vars ==
  <<cache, clock, config, upstream, call, populated, served, pc, req, loc, out,
    settled, arg, ret>>

\* expires_at after a success and after a failure, in ticks
TtlTicks == CACHE_TTL_SECONDS * TicksPerSecond

ErrorTtlTicks ==
  (IF CACHE_TTL_SECONDS < ERROR_TTL_SECONDS THEN CACHE_TTL_SECONDS ELSE ERROR_TTL_SECONDS)
    * TicksPerSecond

\* int(now): whole seconds
IntSeconds(now) == now \div TicksPerSecond

\* how far the clock moves in one step: a little over 20 s
Advance == 20 * TicksPerSecond + 1

\* the version values the manifest can carry
ManifestValues == {S_1_2_3p5, S_2_0_0, S_1_2, S_p5}

Manifests ==
  {Manifest("invalid", << >>), Manifest("no_version", << >>)}
    \cup {Manifest("version", v) : v \in ManifestValues}

\* the current query parameter: absent or a string
CurrentParams ==
  {None} \cup {Some(c) : c \in {S_1_2_3, S_1_2_3p5, S_1_2_3p10, S_1_9_9p999, S_2_0_0,
                                S_a_b_c, S_blank}}

\* the manifest of the repository and the current parameters of the
\* requests while the clock runs past the TTL
ClockManifests == {Manifest("version", S_2_0_0)}

ClockCurrentParams == {None, Some(S_1_9_9p999)}

\* the manifests of a repository that changes
ThreadManifests ==
  {Manifest("no_version", << >>), Manifest("version", S_1_2_3p5),
   Manifest("version", S_2_0_0)}

\* the current parameters of the requests while the repository changes
ThreadCurrentParams == {None, Some(S_1_2_3p10)}

InitCache ==
  [expires_at |-> 0, version |-> None, build |-> None, raw_version |-> None,
   source |-> None, etag |-> None, last_checked_at |-> None, error |-> None]

\* no call of _refresh_cache has ended yet
NoCall ==
  [n |-> 0, now |-> 0, force |-> FALSE, sent |-> FALSE, outcome |-> "none",
   attempt |-> "none", attempt_at |-> 0, overlap |-> FALSE]

NoResp ==
  [ep |-> "none", param |-> None, status |-> 0, ok |-> FALSE, version |-> None, build |-> None,
   raw |-> None, source |-> None, last_checked_at |-> None, error |-> None,
   update_available |-> FALSE, current |-> << >>, latest |-> << >>]

NoReq == [ep |-> "none", force |-> FALSE, param |-> None, current |-> << >>]

NoFetch == [unchanged |-> FALSE, etag |-> None, pubspec_text |-> Manifest("invalid", << >>)]

\* requests.get has not returned
NoResponse == [status |-> -1, base64 |-> FALSE, content |-> Manifest("invalid", << >>),
               etag |-> None]

\* the locals of a _refresh_cache call, with the history of the call: the
\* value of _cache when the request came in, whether the request has run
\* with no other request in progress, whether the guard of line 110 found
\* the cache expired, how often the call has called
\* _fetch_pubspec_from_github (line 114) and requests.get (line 77), and how
\* the call ended
NoLoc ==
  [now |-> 0, etag |-> None, sent |-> FALSE, r |-> NoResponse, fetched |-> NoFetch,
   exc |-> "", before |-> InitCache, alone |-> TRUE, expired |-> FALSE,
   fetches |-> 0, gets |-> 0, outcome |-> "none"]

\* parse_version has not been called
NoRet == [called |-> FALSE, ok |-> FALSE, t |-> <<0, 0, 0, 0>>, err |-> ""]

\* the process has started: line 20-29, and the repository holds a manifest
InitWith(manifests) ==
  /\ cache = InitCache
  /\ clock = 1
  /\ config \in BOOLEAN
  /\ upstream \in {[rev |-> 1, manifest |-> m] : m \in manifests}
  /\ call = NoCall
  /\ populated = FALSE
  /\ served = 0
  /\ pc = [t \in Threads |-> "idle"]
  /\ req = [t \in Threads |-> NoReq]
  /\ loc = [t \in Threads |-> NoLoc]
  /\ out = [t \in Threads |-> NoResp]
  /\ settled = {InitCache}
  /\ arg = << >>
  /\ ret = NoRet

(***************************************************************************)
(* The environment: time passes, the repository gets a new manifest        *)
(***************************************************************************)
\* time passes; the program reads the clock only at line 109, when a request
\* comes in, so the clock is followed up to the last of the requests
TickUpTo(seconds, requests) ==
  /\ served < requests
  /\ clock + Advance <= seconds * TicksPerSecond
  /\ clock' = clock + Advance
  /\ UNCHANGED <<arg, ret, cache, config, upstream, call, populated, served, threads>>

PushFrom(manifests) ==
  /\ upstream.rev < MaxRev
  /\ \E m \in manifests \ {upstream.manifest} :
       upstream' = [rev |-> upstream.rev + 1, manifest |-> m]
  /\ UNCHANGED <<arg, ret, cache, clock, config, call, populated, served, threads>>

(***************************************************************************)
(* _fetch_pubspec_from_github                                              *)
(***************************************************************************)
Response(status, base64, content, etag) ==
  [status |-> status, base64 |-> base64, content |-> content, etag |-> etag]

\* What requests.get can bring back for a request carrying If-None-Match
\* `sent`: no answer at all (status 0: timeout, connection error), an error
\* status, a 200 without the base64 envelope, or the repository's answer,
\* which is 304 when `sent` is the current ETag and 200 with the manifest
\* otherwise.
UpstreamResponses(sent, failures) ==
  failures \cup
  {IF sent = Some(upstream.rev)
   THEN Response(304, FALSE, Manifest("invalid", << >>), Some(upstream.rev))
   ELSE Response(200, TRUE, upstream.manifest, Some(upstream.rev))}

\* the ways requests.get fails or brings back what line 88 or line 95 rejects
Failures ==
  {Response(0, FALSE, Manifest("invalid", << >>), None),
   Response(500, FALSE, Manifest("invalid", << >>), None),
   Response(200, FALSE, Manifest("invalid", << >>), None)}

\* the one failure of requests.get where the other inputs vary
ThreadFailures == {Response(0, FALSE, Manifest("invalid", << >>), None)}

Raised(err) == [raised |-> TRUE, err |-> err, result |-> NoFetch]

\* lines 77-106: r is the response, etag the value read at line 76,
\* cached_version the value of _cache["version"] read at line 80
fetch_result(r, etag, cached_version) ==
  IF r.status = 0 THEN Raised("requests: timed out")
  ELSE IF r.status = 304 /\ Truthy(cached_version)
  THEN [raised |-> FALSE, err |-> "",
        result |-> [unchanged |-> TRUE, etag |-> etag,
                    pubspec_text |-> Manifest("invalid", << >>)]]
  ELSE IF r.status # 200
  THEN Raised(IF r.status = 304 THEN "GitHub API error: 304" ELSE "GitHub API error: 500")
  ELSE IF ~r.base64
  THEN Raised("Unexpected GitHub contents response (missing base64 content).")
  ELSE [raised |-> FALSE, err |-> "",
        result |-> [unchanged |-> FALSE, etag |-> r.etag, pubspec_text |-> r.content]]

\* line 70
ConfigError == "Missing GitHub configuration (owner/repo/path)."

(***************************************************************************)
(* _refresh_cache: the tests of line 110 and the writes to _cache, line by *)
(* line                                                                    *)
(***************************************************************************)
\* line 110, "not force": the cache is consulted at all
guard_applies(force) == ~force

\* line 110, second test, with a window of half the TTL
before_half_ttl(now, c) == now + TtlTicks \div 2 < c.expires_at

\* line 110, second test: now < float(_cache.get("expires_at", 0.0))
before_expiry(now, c) == now < c.expires_at

\* line 110, third test: _cache.get("version")
has_version(c) == Truthy(c.version)

\* line 130 calling the fetch again
except_clause_retrying == "fetch"

\* line 130: an exception raised in lines 114-128 is handled from line 132 on
except_clause == "w132"

\* line 115
w115(c, now) == [c EXCEPT !.last_checked_at = Some(IntSeconds(now))]

\* line 116 left out
w116_keeping_error(c) == c

\* line 116
w116(c) == [c EXCEPT !.error = None]

\* line 119 with the source of the new-content branch
w119_as_github(c) == [c EXCEPT !.source = Some("github")]

\* line 119
w119(c) == [c EXCEPT !.source = Some("github(etag-cache)")]

\* line 123: p is what _parse_pubspec returned
w123(c, p) == [c EXCEPT !.version = Some(p.v)]

\* line 124
w124(c, p) == [c EXCEPT !.build = p.build]

\* line 125
w125(c, p) == [c EXCEPT !.raw_version = Some(p.raw)]

\* line 126
w126(c, etag) == [c EXCEPT !.etag = etag]

\* line 127
w127(c) == [c EXCEPT !.source = Some("github")]

\* line 128 with twice the TTL
w128_twice_ttl(c, now) == [c EXCEPT !.expires_at = now + 2 * TtlTicks]

\* line 128
w128(c, now) == [c EXCEPT !.expires_at = now + TtlTicks]

\* line 134 without the TTL of a failure
w134_without_ttl(c, now) == [c EXCEPT !.expires_at = now]

\* line 132 dropping the cached version as well
w132_clearing(c, err) ==
  [c EXCEPT !.error = Some(err), !.version = None, !.build = None, !.raw_version = None]

\* line 132
w132(c, err) == [c EXCEPT !.error = Some(err)]

\* line 133
w133(c, now) == [c EXCEPT !.last_checked_at = Some(IntSeconds(now))]

\* line 134 with the whole TTL
w134_whole_ttl(c, now) == [c EXCEPT !.expires_at = now + TtlTicks]

\* line 134
w134(c, now) == [c EXCEPT !.expires_at = now + ErrorTtlTicks]

(***************************************************************************)
(* The answers of /version and /check                                      *)
(***************************************************************************)
\* x or "unknown", of an optional message
OrUnknown(opt) == IF opt = None \/ opt[1] = "" THEN Some("unknown") ELSE opt

\* version() lines 145-161
version_response(c) ==
  IF ~Truthy(c.version)
  THEN [NoResp EXCEPT !.ep = "version", !.status = 502, !.ok = FALSE,
                      !.error = OrUnknown(c.error),
                      !.last_checked_at = c.last_checked_at]
  ELSE [NoResp EXCEPT !.ep = "version", !.status = 200, !.ok = TRUE,
                      !.version = c.version, !.build = c.build, !.raw = c.raw_version,
                      !.source = c.source, !.last_checked_at = c.last_checked_at,
                      !.error = c.error]

\* check() lines 169-171: the stripped current parameter
stripped_current(param) == strip(IF param = None THEN << >> ELSE param[1])

\* check() lines 170-171
missing_current_response ==
  [NoResp EXCEPT !.ep = "check", !.status = 400,
                 !.error = Some("Missing 'current' query param")]

\* check() lines 174-221 with current parsed before the cache is looked at
check_response_parsing_first(c, current) ==
  IF ~parse_version(current).ok
  THEN [NoResp EXCEPT !.ep = "check", !.status = 400,
                      !.error = Some(parse_version(current).err), !.current = current]
  ELSE IF ~Truthy(c.raw_version)
  THEN [NoResp EXCEPT !.ep = "check", !.status = 502, !.error = OrUnknown(c.error),
                      !.current = current]
  ELSE [NoResp EXCEPT !.ep = "check", !.status = 200, !.ok = TRUE,
                      !.current = current, !.latest = c.raw_version[1]]

\* check() lines 174-221
check_response(c, current) ==
  IF ~Truthy(c.raw_version)
  THEN [NoResp EXCEPT !.ep = "check", !.status = 502, !.error = OrUnknown(c.error),
                      !.current = current]
  ELSE LET cur == parse_version(current)
           lat == parse_version(c.raw_version[1])
       IN  IF ~cur.ok
           THEN [NoResp EXCEPT !.ep = "check", !.status = 400, !.error = Some(cur.err),
                               !.current = current, !.latest = c.raw_version[1]]
           ELSE IF ~lat.ok
           THEN [NoResp EXCEPT !.ep = "check", !.status = 400, !.error = Some(lat.err),
                               !.current = current, !.latest = c.raw_version[1]]
           ELSE [NoResp EXCEPT !.ep = "check", !.status = 200, !.ok = TRUE,
                               !.update_available = update_available(lat.t, cur.t),
                               !.current = current, !.latest = c.raw_version[1]]

(***************************************************************************)
(* The handlers, one action per line that reads or writes shared state:    *)
(* the clock, _cache, the repository                                       *)
(***************************************************************************)
\* thread t is not inside a handler: it has served no request yet, or it
\* has returned the response of its last one
Free(t) == pc[t] \in {"idle", "done"}

\* the server hands a request to the first thread that is free
FirstIdle(t) == Free(t) /\ \A u \in Threads : u < t => ~Free(u)

\* no other thread is inside a handler
OthersIdle(t) == \A u \in Threads \ {t} : Free(u)

\* thread t enters _refresh_cache, line 109: it reads the clock; history:
\* which requests now overlap and, for a request that comes in while no
\* other is being served, the value of _cache at that time
Entered(t) ==
  [u \in Threads |->
     IF u = t THEN [NoLoc EXCEPT !.now = clock, !.alone = OthersIdle(t),
                                 !.before = IF OthersIdle(t) THEN cache ELSE InitCache]
     ELSE IF ~Free(u) THEN [loc[u] EXCEPT !.alone = FALSE, !.before = InitCache]
     ELSE loc[u]]

\* history: thread t enters _refresh_cache, while another request is in
\* progress or not
Overlapping(t) == [call EXCEPT !.overlap = @ \/ ~OthersIdle(t)]

\* GET /version: lines 142-143 and line 109
StartVersion(t, requests) ==
  /\ FirstIdle(t)
  /\ served < requests
  /\ served' = served + 1
  /\ \E force \in BOOLEAN :
       /\ req' = [req EXCEPT ![t] = [NoReq EXCEPT !.ep = "version", !.force = force]]
       /\ pc' = [pc EXCEPT ![t] = IF guard_applies(force) THEN "l110a" ELSE "fetch"]
  /\ loc' = Entered(t)
  /\ out' = [out EXCEPT ![t] = [NoResp EXCEPT !.ep = "version"]]
  /\ call' = Overlapping(t)
  /\ UNCHANGED <<arg, ret, cache, clock, config, upstream, populated, settled>>

\* GET /check: lines 169-173, the 400 of a missing current included, and
\* line 109
StartCheck(t, params, requests) ==
  /\ FirstIdle(t)
  /\ served < requests
  /\ served' = served + 1
  /\ \E param \in params :
       LET current == stripped_current(param)
       IN  /\ req' = [req EXCEPT ![t] =
                        [NoReq EXCEPT !.ep = "check", !.param = param, !.current = current]]
           /\ IF current = << >>
              THEN /\ out' = [out EXCEPT ![t] =
                                [missing_current_response EXCEPT !.param = param]]
                   /\ pc' = [pc EXCEPT ![t] = "done"]
                   /\ loc' = [loc EXCEPT ![t] = NoLoc]
                   /\ call' = call
              ELSE /\ out' = [out EXCEPT ![t] =
                                [NoResp EXCEPT !.ep = "check", !.param = param]]
                   /\ pc' = [pc EXCEPT ![t] = IF guard_applies(FALSE) THEN "l110a" ELSE "fetch"]
                   /\ loc' = Entered(t)
                   /\ call' = Overlapping(t)
  /\ UNCHANGED <<arg, ret, cache, clock, config, upstream, populated, settled>>

\* history: the call of _refresh_cache by thread t ends with outcome o
Ended(t, o) ==
  [n |-> call.n + 1, now |-> loc[t].now, force |-> req[t].force, sent |-> loc[t].sent,
   outcome |-> o,
   attempt |-> IF o = "hit" THEN call.attempt ELSE o,
   attempt_at |-> IF o = "hit" \/ loc[t].now < call.attempt_at THEN call.attempt_at
                  ELSE loc[t].now,
   overlap |-> call.overlap]

\* where the handler goes on after _refresh_cache: line 145 or line 174
AfterRefresh(t) == IF req[t].ep = "version" THEN "r145" ELSE "r174"

\* line 110, second test: reads _cache["expires_at"]
GuardExpires(t) ==
  /\ pc[t] = "l110a"
  /\ IF before_expiry(loc[t].now, cache)
     THEN /\ pc' = [pc EXCEPT ![t] = "l110b"]
          /\ loc' = loc
     ELSE /\ pc' = [pc EXCEPT ![t] = "fetch"]
          /\ loc' = [loc EXCEPT ![t].expired = TRUE]
  /\ UNCHANGED <<arg, ret, shared, call, req, out, settled>>

\* line 110, third test: reads _cache["version"]; line 111 returns
GuardVersion(t) ==
  /\ pc[t] = "l110b"
  /\ IF has_version(cache)
     THEN /\ pc' = [pc EXCEPT ![t] = AfterRefresh(t)]
          /\ loc' = [loc EXCEPT ![t].outcome = "hit"]
          /\ call' = Ended(t, "hit")
     ELSE /\ pc' = [pc EXCEPT ![t] = "fetch"]
          /\ loc' = [loc EXCEPT ![t].expired = TRUE]
          /\ call' = call
  /\ UNCHANGED <<arg, ret, shared, req, out, settled>>

\* line 114 calls _fetch_pubspec_from_github; its lines 70-77: the
\* configuration check, the read of the cached etag and the sending of the
\* request
FetchSend(t) ==
  /\ pc[t] = "fetch"
  /\ IF ~config
     THEN /\ loc' = [loc EXCEPT ![t].exc = ConfigError, ![t].fetches = @ + 1]
          /\ pc' = [pc EXCEPT ![t] = except_clause]
     ELSE /\ loc' = [loc EXCEPT ![t].etag = cache.etag, ![t].sent = TRUE,
                                ![t].fetches = @ + 1, ![t].gets = @ + 1]
          /\ pc' = [pc EXCEPT ![t] = "wait"]
  /\ UNCHANGED <<arg, ret, shared, call, req, out, settled>>

\* line 77: requests.get returns what the repository answers now, or one of
\* the failures
FetchRecv(t, failures) ==
  /\ pc[t] = "wait"
  /\ \E r \in UpstreamResponses(loc[t].etag, failures) :
       loc' = [loc EXCEPT ![t].r = r]
  /\ pc' = [pc EXCEPT ![t] = "l80"]
  /\ UNCHANGED <<arg, ret, shared, call, req, out, settled>>

\* lines 80-106: the test of line 80 reads _cache["version"]
Line80(t) ==
  /\ pc[t] = "l80"
  /\ LET f == fetch_result(loc[t].r, loc[t].etag, cache.version)
     IN  IF f.raised
         THEN /\ loc' = [loc EXCEPT ![t].exc = f.err, ![t].r = NoResponse]
              /\ pc' = [pc EXCEPT ![t] = except_clause]
         ELSE /\ loc' = [loc EXCEPT ![t].fetched = f.result, ![t].r = NoResponse]
              /\ pc' = [pc EXCEPT ![t] = "w115"]
  /\ UNCHANGED <<arg, ret, shared, call, req, out, settled>>

\* a write of _cache by thread t that leaves its refresh unfinished
Write(t, c, next) ==
  /\ cache' = c
  /\ pc' = [pc EXCEPT ![t] = next]
  /\ UNCHANGED <<arg, ret, clock, config, upstream, populated, served, call, req, loc, out,
                 settled>>

\* the last write of _cache by thread t in its refresh, which ends with
\* outcome o
LastWrite(t, c, o) ==
  /\ cache' = c
  /\ pc' = [pc EXCEPT ![t] = AfterRefresh(t)]
  /\ loc' = [loc EXCEPT ![t].outcome = o]
  /\ call' = Ended(t, o)
  /\ settled' = settled \cup {c}
  /\ UNCHANGED <<arg, ret, clock, config, upstream, populated, served, req, out>>

Line115(t) == pc[t] = "w115" /\ Write(t, w115(cache, loc[t].now), "w116")

\* line 116, the branch of line 118 and, on new content, lines 121-122:
\* _parse_pubspec returns or raises
Line116(t) ==
  /\ pc[t] = "w116"
  /\ Write(t, w116(cache),
           IF loc[t].fetched.unchanged THEN "w119"
           ELSE IF _parse_pubspec(loc[t].fetched.pubspec_text).ok THEN "w123"
           ELSE except_clause)

Line119(t) == pc[t] = "w119" /\ Write(t, w119(cache), "w128")

\* line 123: the version of new content is stored
Line123(t) ==
  /\ pc[t] = "w123"
  /\ cache' = w123(cache, _parse_pubspec(loc[t].fetched.pubspec_text))
  /\ pc' = [pc EXCEPT ![t] = "w124"]
  /\ populated' = TRUE
  /\ UNCHANGED <<arg, ret, clock, config, upstream, served, call, req, loc, out, settled>>

Line124(t) ==
  /\ pc[t] = "w124"
  /\ Write(t, w124(cache, _parse_pubspec(loc[t].fetched.pubspec_text)), "w125")

Line125(t) ==
  /\ pc[t] = "w125"
  /\ Write(t, w125(cache, _parse_pubspec(loc[t].fetched.pubspec_text)), "w126")

Line126(t) == pc[t] = "w126" /\ Write(t, w126(cache, loc[t].fetched.etag), "w127")

Line127(t) == pc[t] = "w127" /\ Write(t, w127(cache), "w128")

\* line 128: the refresh ends in success
Line128(t) ==
  /\ pc[t] = "w128"
  /\ LastWrite(t, w128(cache, loc[t].now),
               IF loc[t].fetched.unchanged THEN "unchanged" ELSE "new")

\* line 132: e is the exception of the fetch, or that of _parse_pubspec
Line132(t) ==
  /\ pc[t] = "w132"
  /\ Write(t, w132(cache, IF loc[t].exc # "" THEN loc[t].exc
                          ELSE _parse_pubspec(loc[t].fetched.pubspec_text).err), "w133")

Line133(t) == pc[t] = "w133" /\ Write(t, w133(cache, loc[t].now), "w134")

\* line 134: the refresh ends in failure
Line134(t) ==
  /\ pc[t] = "w134"
  /\ LastWrite(t, w134(cache, loc[t].now), "failed")

\* a read of _cache by thread t for its response
Read(t, o, next) ==
  /\ out' = [out EXCEPT ![t] = o]
  /\ pc' = [pc EXCEPT ![t] = next]
  /\ UNCHANGED <<arg, ret, shared, call, req, loc, settled>>

\* version() line 145: the test of _cache["version"]
R145(t) ==
  /\ pc[t] = "r145"
  /\ IF ~Truthy(cache.version)
     THEN Read(t, [out[t] EXCEPT !.status = 502, !.ok = FALSE], "r148")
     ELSE Read(t, [out[t] EXCEPT !.status = 200, !.ok = TRUE], "r154")

\* version() lines 148-149: the entries of the 502 body, in order
R148(t) == pc[t] = "r148" /\ Read(t, [out[t] EXCEPT !.error = OrUnknown(cache.error)], "r149")

R149(t) ==
  /\ pc[t] = "r149"
  /\ Read(t, [out[t] EXCEPT !.last_checked_at = cache.last_checked_at], "done")

\* version() lines 154-160: the entries of the 200 body, in order
R154(t) == pc[t] = "r154" /\ Read(t, [out[t] EXCEPT !.version = cache.version], "r155")

R155(t) == pc[t] = "r155" /\ Read(t, [out[t] EXCEPT !.build = cache.build], "r156")

R156(t) == pc[t] = "r156" /\ Read(t, [out[t] EXCEPT !.raw = cache.raw_version], "r157")

R157(t) == pc[t] = "r157" /\ Read(t, [out[t] EXCEPT !.source = cache.source], "r158")

R158(t) ==
  /\ pc[t] = "r158"
  /\ Read(t, [out[t] EXCEPT !.last_checked_at = cache.last_checked_at], "r160")

R160(t) == pc[t] = "r160" /\ Read(t, [out[t] EXCEPT !.error = cache.error], "done")

\* check() line 174 reads _cache["raw_version"]; with a latest, lines
\* 183-221 work on locals only
R174(t) ==
  /\ pc[t] = "r174"
  /\ \E r \in {[check_response(cache, req[t].current) EXCEPT !.param = req[t].param]} :
       IF r.status = 502
       THEN Read(t, [r EXCEPT !.error = None], "r176")
       ELSE Read(t, r, "done")

\* check() line 176: the error of the 502 body
R176(t) == pc[t] = "r176" /\ Read(t, [out[t] EXCEPT !.error = OrUnknown(cache.error)], "done")

\* a step of thread t inside _refresh_cache; the upstream can fail in the
\* ways of failures
RefreshStep(t, failures) ==
  \/ GuardExpires(t) \/ GuardVersion(t)
  \/ FetchSend(t) \/ FetchRecv(t, failures) \/ Line80(t)
  \/ Line115(t) \/ Line116(t) \/ Line119(t) \/ Line123(t)
  \/ Line124(t) \/ Line125(t) \/ Line126(t) \/ Line127(t) \/ Line128(t)
  \/ Line132(t) \/ Line133(t) \/ Line134(t)

\* a step of thread t in version() after _refresh_cache
VersionStep(t) ==
  \/ R145(t) \/ R148(t) \/ R149(t)
  \/ R154(t) \/ R155(t) \/ R156(t) \/ R157(t) \/ R158(t) \/ R160(t)

\* a step of thread t in check() after _refresh_cache
CheckStep(t) == R174(t) \/ R176(t)

\* a step of thread t; requests take their current parameter from params
\* and the upstream can fail in the ways of failures
Step(t, params, failures) ==
  \/ StartVersion(t, MaxRequests) \/ StartCheck(t, params, MaxRequests)
  \/ RefreshStep(t, failures) \/ VersionStep(t) \/ CheckStep(t)

(***************************************************************************)
(* Requests on threads, a request coming in at any time, in five windows   *)
(* of inputs. Spec: every kind of manifest and of current parameter, the   *)
(* repository unchanged.                                                   *)
(***************************************************************************)
Tick == TickUpTo(ThreadMaxSeconds, MaxRequests)

Init == InitWith(Manifests)

Next == Tick \/ \E t \in Threads : Step(t, CurrentParams, ThreadFailures)

Spec == Init /\ [][Next]_vars

(***************************************************************************)
(* ClockSpec: one manifest, every failure of requests.get, and a clock     *)
(* that runs past the TTL                                                  *)
(***************************************************************************)
ClockTick == TickUpTo(MaxSeconds, MaxRequests)

ClockInit == InitWith(ClockManifests)

ClockNext == ClockTick \/ \E t \in Threads : Step(t, ClockCurrentParams, Failures)

ClockSpec == ClockInit /\ [][ClockNext]_vars

(***************************************************************************)
(* ThreadSpec: the repository gets a new manifest while requests are       *)
(* served                                                                  *)
(***************************************************************************)
ThreadTick == TickUpTo(ThreadMaxSeconds, MaxRequests)

ThreadPush == PushFrom(ThreadManifests)

ThreadInit == InitWith(ThreadManifests)

ThreadNext == ThreadTick \/ ThreadPush \/ \E t \in Threads : Step(t, ThreadCurrentParams, ThreadFailures)

ThreadSpec == ThreadInit /\ [][ThreadNext]_vars

(***************************************************************************)
(* RetrySpec: three GET /check requests, one manifest, and a clock that    *)
(* runs past the TTL and on past the expiry of a failure after it          *)
(***************************************************************************)
RetryManifests == {Manifest("version", S_1_2_3p5)}

RetryCurrentParams == {Some(S_1_2_3)}

RetryTick == TickUpTo(RetryMaxSeconds, RetryMaxRequests)

RetryInit == InitWith(RetryManifests)

RetryNext ==
  \/ RetryTick
  \/ \E t \in Threads :
       \/ StartCheck(t, RetryCurrentParams, RetryMaxRequests)
       \/ RefreshStep(t, ThreadFailures) \/ CheckStep(t)

RetrySpec == RetryInit /\ [][RetryNext]_vars

(***************************************************************************)
(* StaleSpec: GET /version requests while the repository gets a manifest   *)
(* that does not parse, with every failure of requests.get                 *)
(***************************************************************************)
StaleManifests ==
  {Manifest("invalid", << >>), Manifest("no_version", << >>),
   Manifest("version", S_1_2_3p5)}

StaleTick == TickUpTo(ThreadMaxSeconds, MaxRequests)

StalePush == PushFrom(StaleManifests)

StaleInit == InitWith(StaleManifests)

StaleNext ==
  \/ StaleTick \/ StalePush
  \/ \E t \in Threads :
       \/ StartVersion(t, MaxRequests)
       \/ RefreshStep(t, Failures) \/ VersionStep(t)

StaleSpec == StaleInit /\ [][StaleNext]_vars

(***************************************************************************)
(* parse_version on its own: called once on a string of up to MaxLen       *)
(* characters                                                              *)
(***************************************************************************)
\* the characters of the strings: a decimal digit, the separators, a blank,
\* a letter and a digit that is not decimal
Alphabet == {"1", ".", "+", " ", "a", "²"}

ParseInputs == UNION {[1..n -> Alphabet] : n \in 0..MaxLen}

ParseInit ==
  /\ cache = InitCache
  /\ clock = 1
  /\ config = TRUE
  /\ upstream = [rev |-> 1, manifest |-> Manifest("no_version", << >>)]
  /\ call = NoCall
  /\ populated = FALSE
  /\ served = 0
  /\ pc = [t \in Threads |-> "idle"]
  /\ req = [t \in Threads |-> NoReq]
  /\ loc = [t \in Threads |-> NoLoc]
  /\ out = [t \in Threads |-> NoResp]
  /\ settled = {InitCache}
  /\ arg \in ParseInputs
  /\ ret = NoRet

\* lines 183-200: parse_version(arg) returns a tuple or raises ValueError
Parse ==
  /\ ~ret.called
  /\ ret' = [called |-> TRUE, ok |-> parse_version(arg).ok, t |-> parse_version(arg).t,
             err |-> parse_version(arg).err]
  /\ UNCHANGED <<cache, clock, config, upstream, call, populated, served, threads,
                 arg>>

ParseNext == Parse

ParseSpec == ParseInit /\ [][ParseNext]_vars

(***************************************************************************)
(* Properties                                                              *)
(***************************************************************************)
\* thread t is inside _refresh_cache
InRefresh(t) ==
  pc[t] \in {"l110a", "l110b", "fetch", "wait", "l80", "w115", "w116", "w119", "w123",
             "w124", "w125", "w126", "w127", "w128", "w132", "w133", "w134"}

\* no refresh is in progress
Quiet == \A t \in Threads : ~InRefresh(t)

\* a step in which the call of _refresh_cache by thread t ends
Ends(t) == loc[t].outcome = "none" /\ loc'[t].outcome # "none"

\* a step in which a call of _refresh_cache by thread t ends that ran with
\* no other request in progress
EndsAlone(t) == Ends(t) /\ loc[t].alone

\* thread t has sent its request to the upstream and not yet finished its refresh
InFlight(t) ==
  /\ loc[t].sent
  /\ pc[t] \in {"wait", "l80", "w115", "w116", "w119", "w123", "w124", "w125", "w126",
                "w127", "w128", "w132", "w133", "w134"}

\* C1: refreshes that overlap while the cache is expired issue one upstream
\* fetch between them: no two threads that both found the cache expired are
\* past requests.get and inside _refresh_cache at the same time.
C1_SingleFlight ==
  \A t, u \in Threads :
    (t # u /\ loc[t].expired /\ loc[u].expired) => ~(InFlight(t) /\ InFlight(u))

\* C2 as stated: two refresh(force=false) calls, one after the other, that
\* start less than one TTL apart do not both issue an upstream fetch,
\* whatever the cache holds and whatever the first call's outcome.
C2_AtMostOneFetchWithinTtl ==
  [][\A t \in Threads :
       (EndsAlone(t) /\ call.n > 0 /\ ~call.force /\ ~req[t].force
          /\ loc[t].now - call.now < TtlTicks)
         => ~(call.sent /\ loc[t].sent)]_vars

\* C2 amended: two refresh(force=false) calls, one after the other, do not
\* both issue an upstream fetch when the first leaves a non-empty version
\* cached and the second starts less than one TTL after a first call that did
\* not fail, or less than min(TTL, 30) seconds after a first call that failed.
C2_AtMostOneFetchWhileCached ==
  [][\A t \in Threads :
       (EndsAlone(t) /\ call.n > 0 /\ ~call.force /\ ~req[t].force
          /\ Truthy(loc[t].before.version)
          /\ loc[t].now - call.now <
               (IF call.outcome = "failed" THEN ErrorTtlTicks ELSE TtlTicks))
         => ~(call.sent /\ loc[t].sent)]_vars

\* C2 with the empty cache set aside and one TTL after every first call: two
\* refresh(force=false) calls, one after the other, do not both issue an
\* upstream fetch when the first leaves a non-empty version cached and the
\* second starts less than one TTL after it. It fails on a first call that
\* failed 41 s before the second.
C2_AtMostOneFetchWithinTtlWhileCached ==
  [][\A t \in Threads :
       (EndsAlone(t) /\ call.n > 0 /\ ~call.force /\ ~req[t].force
          /\ Truthy(loc[t].before.version)
          /\ loc[t].now - call.now < TtlTicks)
         => ~(call.sent /\ loc[t].sent)]_vars

\* C2 witness: a version is cached, a call made after its expiry has fetched
\* and failed, and the call made 20.5 s after that one is answered from the
\* cache
C2_Witness ==
  /\ call.n = 3 /\ call.outcome = "hit" /\ ~call.sent /\ ~call.force
  /\ call.attempt = "failed" /\ call.attempt_at >= 1 + TtlTicks
  /\ call.now = call.attempt_at + Advance
  /\ ~call.overlap /\ populated /\ Truthy(cache.version) /\ cache.error # None
  /\ \E t \in Threads :
       loc[t].outcome = "hit" /\ loc[t].alone /\ Truthy(loc[t].before.version)
         /\ loc[t].before.error # None

\* C3: a refresh that fails, with no other request in progress, while the
\* cache holds a version from an earlier successful refresh leaves version,
\* build and raw_version as they were and leaves error set.
C3_StaleOnError ==
  [][\A t \in Threads :
       (EndsAlone(t) /\ populated /\ loc'[t].outcome = "failed")
         => /\ cache'.version = loc[t].before.version
            /\ cache'.build = loc[t].before.build
            /\ cache'.raw_version = loc[t].before.raw_version
            /\ cache'.error # None]_vars

\* C3 witness: with version 1.2.3 and build 5 cached by an earlier refresh,
\* a refresh has fetched a manifest without a version field and failed after
\* lines 115-116
C3_Witness ==
  /\ populated /\ call.outcome = "failed" /\ ~call.overlap
  /\ cache.version = Some(S_1_2_3) /\ cache.build = Some(5)
  /\ cache.raw_version = Some(S_1_2_3p5)
  /\ cache.error = Some("No 'version' field found in pubspec.yaml")
  /\ \E t \in Threads :
       /\ loc[t].outcome = "failed" /\ loc[t].alone /\ loc[t].exc = ""
       /\ loc[t].before.version = Some(S_1_2_3) /\ loc[t].before.error = None

\* C4: once a refresh has stored new content, /version answers 200 with
\* ok:true.
C4_NoBadGatewayOncePopulated ==
  \A t \in Threads :
    (populated /\ pc[t] = "done" /\ out[t].ep = "version")
      => (out[t].status = 200 /\ out[t].ok)

\* C5: what a handler answers is read from a value _cache held at the start
\* or when some refresh ended, never from the fields of a refresh in progress.
C5_NonTornSnapshot ==
  \A t \in Threads :
    (pc[t] = "done" /\ out[t].status # 400) =>
      \E c \in settled :
        out[t] = IF req[t].ep = "version" THEN version_response(c)
                 ELSE [check_response(c, req[t].current) EXCEPT !.param = req[t].param]

\* C6 as stated: while no refresh has stored new content, /version answers
\* 502 with ok:false and /check with a non-empty current answers 502.
C6_ColdStartNonEmpty ==
  ~populated =>
    \A t \in Threads :
      pc[t] = "done" =>
        /\ out[t].ep = "version" => (out[t].status = 502 /\ ~out[t].ok)
        /\ (out[t].ep = "check" /\ out[t].param # None /\ out[t].param[1] # << >>)
             => out[t].status = 502

\* C6 amended: while no refresh has stored new content, /version answers 502
\* with ok:false and /check with a current that is non-empty after stripping
\* whitespace answers 502.
C6_ColdStart ==
  ~populated =>
    \A t \in Threads :
      pc[t] = "done" =>
        /\ out[t].ep = "version" => (out[t].status = 502 /\ ~out[t].ok)
        /\ (out[t].ep = "check" /\ stripped_current(out[t].param) # << >>)
             => out[t].status = 502

\* C6 witness: /check with a malformed current answers 502 after a failed refresh
C6_Witness ==
  /\ ~populated
  /\ \E t \in Threads :
       /\ pc[t] = "done" /\ out[t].ep = "check" /\ out[t].status = 502
       /\ out[t].current = S_a_b_c /\ loc[t].outcome = "failed"

\* what a not-modified answer leaves alone and what it sets, but for
\* last_checked_at, in the refresh of thread t
NotModifiedEffect(t) ==
  /\ cache'.version = loc[t].before.version
  /\ cache'.build = loc[t].before.build
  /\ cache'.raw_version = loc[t].before.raw_version
  /\ cache'.etag = loc[t].before.etag
  /\ cache'.source = Some("github(etag-cache)")
  /\ cache'.expires_at = loc[t].now + TtlTicks
  /\ cache'.error = None

\* C7 as stated: a refresh answered not-modified while a version is cached,
\* with no other request in progress, leaves version, build, raw_version and
\* etag as they were, sets source to the etag-cache variant, last_checked_at
\* to the refresh time, expires_at to the refresh time plus TTL and error to
\* None.
C7_NotModifiedExactTime ==
  [][\A t \in Threads :
       (EndsAlone(t) /\ loc'[t].outcome = "unchanged")
         => /\ NotModifiedEffect(t)
            /\ cache'.last_checked_at # None
            /\ cache'.last_checked_at[1] * TicksPerSecond = loc[t].now]_vars

\* C7 amended: the same, with last_checked_at set to the refresh time
\* truncated to whole seconds.
C7_NotModified ==
  [][\A t \in Threads :
       (EndsAlone(t) /\ loc'[t].outcome = "unchanged")
         => /\ NotModifiedEffect(t)
            /\ cache'.last_checked_at = Some(IntSeconds(loc[t].now))]_vars

\* C7 witness: a refresh was answered not-modified while version 1.2.3 with
\* build 5 and the error of a failed refresh were cached
C7_Witness ==
  /\ call.outcome = "unchanged" /\ call.sent /\ cache.version = Some(S_1_2_3)
  /\ cache.build = Some(5) /\ cache.error = None
  /\ cache.source = Some("github(etag-cache)")
  /\ \E t \in Threads :
       loc[t].outcome = "unchanged" /\ loc[t].alone /\ loc[t].before.error # None

\* the order of C8 on 4-tuples: major, minor, patch, then build
StrictlyNewer(a, b) ==
  \/ a[1] > b[1]
  \/ a[1] = b[1] /\ a[2] > b[2]
  \/ a[1] = b[1] /\ a[2] = b[2] /\ a[3] > b[3]
  \/ a[1] = b[1] /\ a[2] = b[2] /\ a[3] = b[3] /\ a[4] > b[4]

\* C8: for a well-formed current and a well-formed cached latest, /check
\* answers 200 with update_available true exactly when latest is strictly
\* newer in the order (major, minor, patch), then build, absent build as 0.
C8_UpdateAvailable ==
  \A t \in Threads :
    (/\ pc[t] = "done"
     /\ out[t].ep = "check"
     /\ out[t].latest # << >>
     /\ parse_version(out[t].current).ok
     /\ parse_version(out[t].latest).ok)
      => /\ out[t].status = 200
         /\ out[t].update_available
              = StrictlyNewer(parse_version(out[t].latest).t,
                              parse_version(out[t].current).t)

\* C8 witness: with 1.2.3+5 cached, one request is told that it is newer than
\* 1.2.3 (the builds decide, an absent build as 0) and another that it is not
\* newer than 1.2.3+10
C8_Witness ==
  \E t, u \in Threads :
    /\ pc[t] = "done" /\ out[t].ep = "check" /\ out[t].status = 200
    /\ out[t].latest = S_1_2_3p5 /\ out[t].current = S_1_2_3
    /\ out[t].update_available
    /\ pc[u] = "done" /\ out[u].ep = "check" /\ out[u].status = 200
    /\ out[u].latest = S_1_2_3p5 /\ out[u].current = S_1_2_3p10
    /\ ~out[u].update_available

\* C9: /check answers 400 only when current is missing or malformed.
C9_BadRequestOnlyForCallerInput ==
  \A t \in Threads :
    (pc[t] = "done" /\ out[t].ep = "check" /\ out[t].status = 400)
      => (stripped_current(out[t].param) = << >> \/ ~parse_version(out[t].current).ok)

\* C10: raw_version is None or a string that parse_version accepts.
C10_RawVersionWellFormed ==
  cache.raw_version = None \/ parse_version(cache.raw_version[1]).ok

\* the grammar of C11 on a stripped string: the part before the first "+" has
\* exactly 3 components between dots, each made of decimal digits only
VersionPart(v) == IF Contains(v, "+") THEN SplitFirst(v, "+")[1] ELSE v

BuildPart(v) == IF Contains(v, "+") THEN SplitFirst(v, "+")[2] ELSE << >>

DecimalOnly(s) == Len(s) > 0 /\ \A i \in 1..Len(s) : s[i] \in Digits

Grammar(v) ==
  LET parts == split(VersionPart(v), ".")
  IN  Len(parts) = 3 /\ \A i \in 1..3 : DecimalOnly(parts[i])

GrammarTuple(v) ==
  LET parts == split(VersionPart(v), ".")
  IN  <<int(parts[1]), int(parts[2]), int(parts[3]),
        IF DecimalOnly(BuildPart(v)) THEN int(BuildPart(v)) ELSE 0>>

\* C11: parse_version succeeds exactly on the strings that, stripped, follow
\* the grammar, and then returns major, minor, patch and the build, which is
\* the value of the part after "+" when that part is decimal digits only and
\* 0 otherwise; on every other string it raises ValueError.
C11_ParseGrammar ==
  ret.called =>
    IF Grammar(strip(arg))
    THEN ret.ok /\ ret.t = GrammarTuple(strip(arg))
    ELSE ~ret.ok

\* thread t has been, since it came in, the only request in progress; it
\* asked for no forced refresh and came in before expires_at while a version
\* was cached
CameInFresh(t) ==
  /\ pc[t] # "idle" /\ loc[t].now > 0 /\ loc[t].alone
  /\ ~req[t].force
  /\ loc[t].now < loc[t].before.expires_at
  /\ Truthy(loc[t].before.version)

\* C12: a refresh without force, called before expires_at while a version is
\* cached, with no other request in progress, sends nothing to the upstream
\* and leaves every field of _cache as it was.
C12_CacheHitFrame ==
  \A t \in Threads :
    CameInFresh(t)
      => /\ ~loc[t].sent
         /\ cache = loc[t].before
         /\ InRefresh(t) => pc[t] \in {"l110a", "l110b"}
         /\ ~InRefresh(t) => loc[t].outcome = "hit"

\* C12 witness: a call answered from the cache more than 40 s after the fetch
C12_Witness ==
  /\ call.outcome = "hit" /\ ~call.force /\ Truthy(cache.version)
  /\ call.now >= 1 + 2 * Advance /\ call.now < cache.expires_at
  /\ \E t \in Threads : CameInFresh(t) /\ loc[t].outcome = "hit"

\* expires_at after the refresh of thread t, which was not answered from the
\* cache
ExpiryEffect(t) ==
  cache'.expires_at =
    loc[t].now + (IF loc'[t].outcome \in {"new", "unchanged"} THEN TtlTicks
                  ELSE ErrorTtlTicks)

\* C13 as stated: a refresh started at time t, with no other request in
\* progress, that is not a cache hit leaves expires_at = t + TTL when it
\* succeeded and t + min(TTL, 30) when it failed, and last_checked_at = t.
C13_ExpiryExactTime ==
  [][\A t \in Threads :
       (EndsAlone(t) /\ loc'[t].outcome # "hit")
         => /\ ExpiryEffect(t)
            /\ cache'.last_checked_at # None
            /\ cache'.last_checked_at[1] * TicksPerSecond = loc[t].now]_vars

\* C13 amended: the same, with last_checked_at = t truncated to whole seconds.
C13_Expiry ==
  [][\A t \in Threads :
       (EndsAlone(t) /\ loc'[t].outcome # "hit")
         => /\ ExpiryEffect(t)
            /\ cache'.last_checked_at = Some(IntSeconds(loc[t].now))]_vars

\* C13 witness: a refresh that failed at a time that is not a whole second
C13_Witness ==
  /\ Quiet /\ ~call.overlap /\ call.outcome = "failed" /\ call.now % TicksPerSecond # 0
  /\ cache.expires_at = call.now + ErrorTtlTicks
  /\ cache.last_checked_at = Some(IntSeconds(call.now))

\* C14: as long as no two refreshes have overlapped, whenever no refresh is
\* in progress and one has gone past the cache-hit test, error is None
\* exactly when the latest such refresh succeeded (new content or not
\* modified) and is set exactly when it failed; refreshes answered from the
\* cache in between do not change this.
C14_ErrorTracksLastAttempt ==
  (~call.overlap /\ Quiet /\ call.attempt # "none") =>
    /\ (cache.error = None) <=> (call.attempt \in {"new", "unchanged"})
    /\ (cache.error # None) <=> (call.attempt = "failed")

\* C14 witness: a call answered from the cache after a refresh that failed
\* with a version cached has left error set
C14_Witness ==
  /\ ~call.overlap /\ Quiet /\ call.n = 3
  /\ call.outcome = "hit" /\ call.attempt = "failed" /\ call.attempt_at < call.now
  /\ cache.error # None /\ Truthy(cache.version)

\* C15: expires_at is never later than the time of the latest refresh that
\* went past the cache-hit test plus the TTL, and a refresh without force
\* called a TTL or more after that time is not answered from the cache: it
\* calls the fetch, which sends a request when the upstream is configured.
C15_BoundedStaleness ==
  /\ [](cache.expires_at <= call.attempt_at + TtlTicks)
  /\ [][\A t \in Threads :
          (EndsAlone(t) /\ ~req[t].force /\ loc[t].now >= call.attempt_at + TtlTicks)
            => /\ loc'[t].outcome # "hit"
               /\ config => loc[t].sent]_vars

\* C15 witness: a version cached by one request is revalidated by the next,
\* made without force more than a TTL later
C15_Witness ==
  /\ call.n = 2 /\ ~call.force /\ call.sent /\ call.outcome = "unchanged"
  /\ ~call.overlap /\ call.now >= 1 + TtlTicks /\ Truthy(cache.version)

\* C16: a refresh that gets a 304 while no version is cached ends as a
\* failure: error is set, version, build and raw_version are absent after it,
\* and source is not the etag-cache variant.
C16_NotModifiedWithoutVersion ==
  [][\A t \in Threads :
       (EndsAlone(t) /\ loc[t].sent /\ ~Truthy(loc[t].before.version)
          /\ cache'.error = Some("GitHub API error: 304"))
         => /\ loc'[t].outcome = "failed"
            /\ ~Truthy(cache'.version)
            /\ cache'.build = None
            /\ ~Truthy(cache'.raw_version)
            /\ cache'.source # Some("github(etag-cache)")]_vars

\* C17: no call of _refresh_cache calls the fetch or requests.get more than
\* once, and a refresh called with force, or at or after expires_at, or with
\* no version cached, with no other request in progress, is not answered
\* from the cache: when it ends, in success, failure or timeout, it has
\* called the fetch exactly once, and the fetch has sent exactly one request,
\* carrying the etag that _cache holds at that time (none when the upstream
\* location is not configured).
C17_FetchOncePerMiss ==
  /\ [](\A t \in Threads : loc[t].fetches <= 1 /\ loc[t].gets <= loc[t].fetches)
  /\ [][\A t \in Threads :
          (EndsAlone(t) /\ (\/ req[t].force
                            \/ loc[t].now >= loc[t].before.expires_at
                            \/ ~Truthy(loc[t].before.version)))
            => /\ loc'[t].outcome \in {"new", "unchanged", "failed"}
               /\ loc[t].fetches = 1 /\ loc'[t].fetches = 1
               /\ config => (loc'[t].gets = 1 /\ loc[t].etag = loc[t].before.etag)
               /\ ~config => (loc'[t].gets = 0 /\ loc'[t].outcome = "failed")]_vars

\* C17 witness: a forced refresh inside the TTL window of the first one has
\* sent the cached etag in one request, which timed out, and the handler has
\* answered
C17_Witness ==
  /\ call.n = 2 /\ call.force /\ call.sent
  /\ call.now < 1 + TtlTicks /\ call.outcome = "failed"
  /\ cache.error = Some("requests: timed out") /\ Truthy(cache.version)
  /\ \E t \in Threads :
       /\ pc[t] = "done" /\ loc[t].alone /\ loc[t].outcome = "failed"
       /\ loc[t].etag # None /\ loc[t].fetches = 1 /\ loc[t].gets = 1

\* thread t has written the version of new content and not yet its etag
BetweenVersionAndEtag(t) == pc[t] \in {"w124", "w125", "w126"}

\* C18: whenever no refresh stands between its write of the version and its
\* write of the etag, a stored etag that is the upstream's current ETag goes
\* with the raw_version parsed from the upstream's current manifest: the
\* etag and the raw_version in _cache come from the same response.
C18_EtagOfStoredVersion ==
  ((\A t \in Threads : ~BetweenVersionAndEtag(t)) /\ cache.etag = Some(upstream.rev))
    => cache.raw_version = Some(_parse_pubspec(upstream.manifest).raw)

\* C19: version is cached (not None, not empty) exactly when raw_version is.
C19_VersionIffRawVersion ==
  Truthy(cache.version) <=> Truthy(cache.raw_version)

\* the upstream has only moved to newer content: it has not changed, or it
\* has changed once and now holds the newest of the versions it can carry
NewestManifest ==
  /\ upstream.manifest.kind = "version"
  /\ \A m \in ThreadManifests :
       m.kind = "version" =>
         ~StrictlyNewer(parse_version(m.value).t, parse_version(upstream.manifest.value).t)

OnlyNewerContent == upstream.rev = 1 \/ (upstream.rev = 2 /\ NewestManifest)

\* C20: while the upstream only moves to newer content, no write of _cache
\* replaces raw_version by an older version or the etag by that of an earlier
\* revision, and none lowers last_checked_at or expires_at.
C20_NeverBackwards ==
  [][OnlyNewerContent =>
       /\ (Truthy(cache.raw_version) /\ Truthy(cache'.raw_version))
            => ~StrictlyNewer(parse_version(cache.raw_version[1]).t,
                              parse_version(cache'.raw_version[1]).t)
       /\ (cache.etag # None /\ cache'.etag # None) => cache'.etag[1] >= cache.etag[1]
       /\ (cache.last_checked_at # None)
            => (cache'.last_checked_at # None
                 /\ cache'.last_checked_at[1] >= cache.last_checked_at[1])
       /\ cache'.expires_at >= cache.expires_at]_vars

====
